---------------------------- MODULE Spec2Model ----------------------------
(***************************************************************************)
(* Model of generate_osc_from_diff.py: two OSM files are read into         *)
(* PBFReader snapshots, generate_osc partitions the ids of each kind into  *)
(* created / modified / deleted, builds the osmChange tree and writes it.  *)
(* Further down: apply_osc_files.py (the chain of osmium calls over the    *)
(* change files of a directory) and remove_target_network_from_lists of    *)
(* remove_state_road_tags.py.  Each program has its own variables and its  *)
(* own specifications; the variables of the other programs stay idle.      *)
(*                                                                         *)
(* Coordinates are integers in units of 1e-8 degree.  Python's None is the *)
(* empty tuple and an optional value x that is present is <<x>>.  A dict   *)
(* is the sequence of its <<key, value>> items in insertion order.         *)
(***************************************************************************)
EXTENDS Integers, Sequences, FiniteSets, TLC

\* generate_osc_from_diff.py
VARIABLES phase, original_reader, modified_reader,
          created, modified, deleted, osm_change, output_file
\* apply_file over one input file: the entities of the file in file order
\* and the number of them the handler has been called with.
VARIABLES stream, pos
\* apply_osc_files.py
VARIABLES change_dir, change_files, step, current_file, temp_files,
          files, commands, result, apply_pc
\* remove_state_road_tags.py
VARIABLES network_value, ref_value, removal

diffVars == <<phase, original_reader, modified_reader,
              created, modified, deleted, osm_change, output_file>>
readVars == <<stream, pos>>
applyVars == <<change_dir, change_files, step, current_file, temp_files,
               files, commands, result, apply_pc>>
tagVars == <<network_value, ref_value, removal>>

vars == <<diffVars, readVars, applyVars, tagVars>>

\* ------------------------------------------------------------------ bounds
\* The two input files use at most MaxId different ids per kind.
MaxId == 2
\* The two input files hold at most MaxElems entities together.
MaxElems == 3

\* 1e-7 degree, in units of 1e-8 degree.
Tolerance == 10

\* --------------------------------------------------------- Python values
None == <<>>
Some(x) == <<x>>

\* The variables of a program that is not running.
DiffIdle ==
    /\ phase = "idle"
    /\ original_reader = None /\ modified_reader = None
    /\ created = None /\ modified = None /\ deleted = None
    /\ osm_change = None /\ output_file = None
ReadIdle == stream = <<>> /\ pos = 0
ApplyIdle ==
    /\ apply_pc = "idle"
    /\ change_dir = None /\ change_files = <<>> /\ step = 0
    /\ current_file = None /\ temp_files = <<>>
    /\ files = {} /\ commands = <<>> /\ result = None
TagIdle == network_value = None /\ ref_value = None /\ removal = None

Abs(x) == IF x < 0 THEN -x ELSE x

\* dict: `k in d`
DictHas(d, k) == \E i \in 1..Len(d) : d[i][1] = k
\* dict: d[k]
DictGet(d, k) == d[CHOOSE i \in 1..Len(d) : d[i][1] = k][2]
\* Variant: d.setdefault(k, v), the first value of a key is kept.
DictSet_keep_first(d, k, v) ==
    IF DictHas(d, k) THEN d ELSE Append(d, <<k, v>>)
\* dict: d[k] = v  (an existing key keeps its position)
DictSet(d, k, v) ==
    IF DictHas(d, k)
    THEN [i \in 1..Len(d) |-> IF d[i][1] = k THEN <<k, v>> ELSE d[i]]
    ELSE Append(d, <<k, v>>)
\* dict: set(d.keys())
DictKeys(d) == {d[i][1] : i \in 1..Len(d)}
\* dict: d.values(), in insertion order
DictValues(d) == [i \in 1..Len(d) |-> d[i][2]]
\* dict: the mapping itself, insertion order forgotten
DictItems(d) == {d[i] : i \in 1..Len(d)}

\* The orders in which a set can be iterated.
Orders(S) ==
    {s \in [1..Cardinality(S) -> S] : \A i, j \in 1..Cardinality(S) : s[i] = s[j] => i = j}

\* ------------------------------------------------------- input entities
\* Provenance of an entity as osmium delivers it.
Meta1 == [version |-> 1, timestamp |-> None, uid |-> None, user |-> "", changeset |-> None]
Meta2 == [version |-> 2, timestamp |-> Some(3661), uid |-> Some(7), user |-> "bob", changeset |-> Some(9)]
Meta3 == [version |-> 3, timestamp |-> None, uid |-> Some(7), user |-> "bob", changeset |-> Some(9)]

TagsNone == <<>>
TagsA == [name |-> "A"]
TagsB == [name |-> "B", amenity |-> "bench"]

\* An osmium.osm.Node / Way / Relation object handed to a handler callback.
OsmNode(id, meta, tags, lat, lon) ==
    [kind |-> "node", id |-> id, meta |-> meta, tags |-> tags,
     lat |-> lat, lon |-> lon, nodes |-> <<>>, members |-> <<>>]
OsmWay(id, meta, tags, refs) ==
    [kind |-> "way", id |-> id, meta |-> meta, tags |-> tags,
     lat |-> 0, lon |-> 0, nodes |-> refs, members |-> <<>>]
OsmRelation(id, meta, tags, members) ==
    [kind |-> "relation", id |-> id, meta |-> meta, tags |-> tags,
     lat |-> 0, lon |-> 0, nodes |-> <<>>, members |-> members]

Refs123 == <<1, 2, 3>>
Refs132 == <<1, 3, 2>>
Refs12 == <<1, 2>>

MemA == <<"n", 1, "stop">>
MemB == <<"n", 1, "platform">>
MemC == <<"w", 1, "stop">>
MemD == <<"n", 2, "stop">>

\* The ids of the entities of Spec: 9, 10, ..., so that the numeric order of
\* the ids is not the order of their decimal texts.
FileIds == {8 + i : i \in 1..MaxId}

\* The entities the files of Spec are made of: two versions of each id.
FileNodes ==
    {OsmNode(i, Meta1, TagsA, 0, 100) : i \in FileIds}
    \cup {OsmNode(i, Meta2, TagsB, 0, 100) : i \in FileIds}
FileWays ==
    {OsmWay(i, Meta1, TagsA, Refs123) : i \in FileIds}
    \cup {OsmWay(i, Meta2, TagsA, Refs132) : i \in FileIds}
FileRelations ==
    {OsmRelation(i, Meta1, TagsNone, <<MemA, MemC>>) : i \in FileIds}
    \cup {OsmRelation(i, Meta2, TagsNone, <<MemB, MemC>>) : i \in FileIds}

\* The entities of the one-entity files of SpecCompare: every combination
\* of provenance, tags and content, all with the same id.
CompareIds == {1}
CompareMetas == {Meta1, Meta2, Meta3}
CompareTags == {TagsNone, TagsA, TagsB}
CompareLats == {0, 1, 11, 101}
CompareLons == {100, 110, 111}
CompareRefs == {Refs123, Refs132, Refs12, <<>>}
CompareMembers == {<<MemA>>, <<MemB>>, <<MemC>>, <<MemA, MemD>>, <<MemD, MemA>>}
CompareNodes ==
    {OsmNode(i, m, t, la, lo) :
        i \in CompareIds, m \in CompareMetas, t \in CompareTags, la \in CompareLats, lo \in CompareLons}
CompareWays ==
    {OsmWay(i, m, t, r) : i \in CompareIds, m \in CompareMetas, t \in CompareTags, r \in CompareRefs}
CompareRelations ==
    {OsmRelation(i, m, t, ms) :
        i \in CompareIds, m \in CompareMetas, t \in CompareTags, ms \in CompareMembers}

\* ------------------------------------------------------------ ElementData
ElementData(element) ==
    [id |-> element.id,
     version |-> element.meta.version,
     timestamp |-> element.meta.timestamp,
     uid |-> element.meta.uid,
     user |-> element.meta.user,
     changeset |-> element.meta.changeset,
     tags |-> element.tags,
     lat |-> IF element.kind = "node" THEN element.lat ELSE None,
     lon |-> IF element.kind = "node" THEN element.lon ELSE None,
     location |-> IF element.kind = "node" THEN <<element.lat, element.lon>> ELSE None,
     nodes |-> IF element.kind = "way" THEN Some(element.nodes) ELSE None,
     members |-> IF element.kind = "relation" THEN Some(element.members) ELSE None]

\* __eq__, `if self.tags != other.tags`
eq_tags_differ(self, other) == self.tags # other.tags

\* Variants of the location test: latitude compared with longitude, and
\* a difference equal to the tolerance counted as a change.
eq_location_differs_latlon(self, other) ==
    /\ self.location # None /\ other.location # None
    /\ \/ Abs(self.lat - other.lon) > Tolerance
       \/ Abs(self.lon - other.lat) > Tolerance
eq_location_differs_ge(self, other) ==
    /\ self.location # None /\ other.location # None
    /\ \/ Abs(self.lat - other.lat) >= Tolerance
       \/ Abs(self.lon - other.lon) >= Tolerance
\* __eq__, the location block
eq_location_differs(self, other) ==
    /\ self.location # None /\ other.location # None
    /\ \/ Abs(self.lat - other.lat) > Tolerance
       \/ Abs(self.lon - other.lon) > Tolerance

\* Variant of the node-ref test: the refs compared as sets.
eq_nodes_differ_as_sets(self, other) ==
    /\ self.nodes # None /\ other.nodes # None
    /\ {self.nodes[1][i] : i \in 1..Len(self.nodes[1])}
        # {other.nodes[1][i] : i \in 1..Len(other.nodes[1])}
\* __eq__, the way block
eq_nodes_differ(self, other) ==
    /\ self.nodes # None /\ other.nodes # None
    /\ self.nodes # other.nodes

\* __eq__, the relation block
eq_members_differ(self, other) ==
    /\ self.members # None /\ other.members # None
    /\ self.members # other.members

\* Variant of __eq__: the version is compared too.
ElementData_eq_with_version(self, other) ==
    IF self.id # other.id THEN FALSE
    ELSE IF self.version # other.version THEN FALSE
    ELSE IF eq_tags_differ(self, other) THEN FALSE
    ELSE IF eq_location_differs(self, other) THEN FALSE
    ELSE IF eq_nodes_differ(self, other) THEN FALSE
    ELSE IF eq_members_differ(self, other) THEN FALSE
    ELSE TRUE
ElementData_eq(self, other) ==
    IF self.id # other.id THEN FALSE
    ELSE IF eq_tags_differ(self, other) THEN FALSE
    ELSE IF eq_location_differs(self, other) THEN FALSE
    ELSE IF eq_nodes_differ(self, other) THEN FALSE
    ELSE IF eq_members_differ(self, other) THEN FALSE
    ELSE TRUE

\* Variant of is_modified: the negation is missing.
is_modified_not_negated(self, other) == ElementData_eq(self, other)
is_modified(self, other) == ~ElementData_eq(self, other)

\* -------------------------------------------------------------- PBFReader
PBFReader == [nodes |-> <<>>, ways |-> <<>>, relations |-> <<>>]

PBFReader_node(reader, n) ==
    [reader EXCEPT !.nodes = DictSet(reader.nodes, n.id, ElementData(n))]
PBFReader_way(reader, w) ==
    [reader EXCEPT !.ways = DictSet(reader.ways, w.id, ElementData(w))]
PBFReader_relation(reader, r) ==
    [reader EXCEPT !.relations = DictSet(reader.relations, r.id, ElementData(r))]

ReaderSize(reader) == Len(reader.nodes) + Len(reader.ways) + Len(reader.relations)

\* ------------------------------------------------------------------- XML
\* An xml.etree Element: attributes in the order they were set.
Element(tag, attrs, children) == [tag |-> tag, attrs |-> attrs, children |-> children]

\* str() of an integer: its decimal digits, most significant first, after
\* "-" when it is negative.
RECURSIVE Digits(_)
Digits(n) == IF n < 10 THEN <<n>> ELSE Append(Digits(n \div 10), n % 10)
str(n) == IF n < 0 THEN <<"-">> \o Digits(-n) ELSE Digits(n)

\* datetime.strftime('%Y-%m-%dT%H:%M:%SZ') of a time of day on 1970-01-01,
\* given in seconds: the fields of the formatted text.
strftime(t) == <<1970, 1, 1, t \div 3600, (t % 3600) \div 60, t % 60, "Z">>

\* utcnow is the value datetime.utcnow() returns during the call.
format_timestamp(timestamp, utcnow) ==
    IF timestamp # None THEN strftime(timestamp[1]) ELSE strftime(utcnow)

\* The tag keys of the model in lexicographic order, as sorted() orders them.
TagKeyOrder == <<"amenity", "name">>
HasKey(tags, k) == \E key \in DOMAIN tags : key = k
sorted_tag_keys(tags) == SelectSeq(TagKeyOrder, LAMBDA k : HasKey(tags, k))

Opt(cond, x) == IF cond THEN <<x>> ELSE <<>>

create_osm_element_xml(element_data, element_type, utcnow) ==
    LET attrs ==
            <<  <<"id", str(element_data.id)>>,
                <<"version", str(element_data.version)>>  >>
            \o Opt(element_data.timestamp # None,
                   <<"timestamp", format_timestamp(element_data.timestamp, utcnow)>>)
            \o Opt(element_data.uid # None,
                   <<"uid", IF element_data.uid # None THEN str(element_data.uid[1]) ELSE "">>)
            \o Opt(element_data.user # "", <<"user", element_data.user>>)
            \o Opt(element_data.changeset # None,
                   <<"changeset", IF element_data.changeset # None
                                  THEN str(element_data.changeset[1]) ELSE "">>)
            \o (IF element_type = "node" /\ element_data.location # None
                THEN << <<"lat", str(element_data.lat)>>, <<"lon", str(element_data.lon)>> >>
                ELSE <<>>)
        nds ==
            IF element_type = "way" /\ element_data.nodes # None
               /\ element_data.nodes # Some(<<>>)
            THEN [i \in 1..Len(element_data.nodes[1]) |->
                    Element("nd", << <<"ref", str(element_data.nodes[1][i])>> >>, <<>>)]
            ELSE <<>>
        mems ==
            IF element_type = "relation" /\ element_data.members # None
               /\ element_data.members # Some(<<>>)
            THEN [i \in 1..Len(element_data.members[1]) |->
                    Element("member",
                            << <<"type", element_data.members[1][i][1]>>,
                               <<"ref", str(element_data.members[1][i][2])>>,
                               <<"role", element_data.members[1][i][3]>> >>,
                            <<>>)]
            ELSE <<>>
        keys == sorted_tag_keys(element_data.tags)
        tagels ==
            [i \in 1..Len(keys) |->
                Element("tag", << <<"k", keys[i]>>, <<"v", element_data.tags[keys[i]]>> >>, <<>>)]
    IN  Element(element_type, attrs, nds \o mems \o tagels)

\* sorted(values, key=lambda x: x.id): a stable insertion sort.
RECURSIVE InsertById(_, _)
InsertById(x, s) ==
    IF s = <<>> THEN <<x>>
    ELSE IF s[Len(s)].id <= x.id THEN Append(s, x)
    ELSE Append(InsertById(x, SubSeq(s, 1, Len(s) - 1)), s[Len(s)])

\* Variant of sorted(): the values stay in insertion order.
sorted_by_id_unsorted(values) == values
RECURSIVE sorted_by_id(_)
sorted_by_id(values) ==
    IF values = <<>> THEN <<>>
    ELSE InsertById(values[Len(values)], sorted_by_id(SubSeq(values, 1, Len(values) - 1)))

\* ---------------------------------------------------------- generate_osc
\* {k: v for k, v in there.items() if k not in here}
NotIn(there, here) == SelectSeq(there, LAMBDA kv : ~DictHas(here, kv[1]))

\* Variants: every node of the modified file taken as created; the ways
\* looked up among the original nodes.
created_nodes_unfiltered(orig, mod) == mod.nodes
created_ways_in_nodes(orig, mod) == NotIn(mod.ways, orig.nodes)
created_nodes(orig, mod) == NotIn(mod.nodes, orig.nodes)
created_ways(orig, mod) == NotIn(mod.ways, orig.ways)
created_relations(orig, mod) == NotIn(mod.relations, orig.relations)

deleted_nodes(orig, mod) == NotIn(orig.nodes, mod.nodes)
deleted_ways(orig, mod) == NotIn(orig.ways, mod.ways)
\* Variant: the relations looked up among the modified ways.
deleted_relations_in_ways(orig, mod) == NotIn(orig.relations, mod.ways)
deleted_relations(orig, mod) == NotIn(orig.relations, mod.relations)

\* set(orig.keys()) & set(mod.keys())
CommonKeys(origDict, modDict) == DictKeys(origDict) \cap DictKeys(modDict)

\* The loop over the common keys, visited in the order `order`: the items
\* of modDict whose value is_modified against origDict's.
\* Variant: the original's value is stored for a modified key.
ModifiedLoop_stores_original(origDict, modDict, order) ==
    SelectSeq([i \in 1..Len(order) |-> <<order[i], DictGet(origDict, order[i])>>],
              LAMBDA kv : is_modified(DictGet(modDict, kv[1]), kv[2]))
ModifiedLoop(origDict, modDict, order) ==
    SelectSeq([i \in 1..Len(order) |-> <<order[i], DictGet(modDict, order[i])>>],
              LAMBDA kv : is_modified(kv[2], DictGet(origDict, kv[1])))

modified_nodes(orig, mod, order) == ModifiedLoop(orig.nodes, mod.nodes, order)
modified_ways(orig, mod, order) == ModifiedLoop(orig.ways, mod.ways, order)
modified_relations(orig, mod, order) == ModifiedLoop(orig.relations, mod.relations, order)

\* The elements of one section: nodes, ways, relations, each sorted by id.
SectionElements(part, utcnow) ==
    LET ns == sorted_by_id(DictValues(part.nodes))
        ws == sorted_by_id(DictValues(part.ways))
        rs == sorted_by_id(DictValues(part.relations))
    IN  [i \in 1..Len(ns) |-> create_osm_element_xml(ns[i], "node", utcnow)]
        \o [i \in 1..Len(ws) |-> create_osm_element_xml(ws[i], "way", utcnow)]
        \o [i \in 1..Len(rs) |-> create_osm_element_xml(rs[i], "relation", utcnow)]

\* `if nodes or ways or relations:` on three dicts
\* Variant: only the nodes are looked at.
AnyNonEmpty_nodes_only(part) == part.nodes # <<>>
AnyNonEmpty(part) == part.nodes # <<>> \/ part.ways # <<>> \/ part.relations # <<>>

Section(name, part, utcnow) ==
    IF AnyNonEmpty(part)
    THEN << Element(name, <<>>, SectionElements(part, utcnow)) >>
    ELSE <<>>

OsmChange(cre, mdf, del, utcnow) ==
    Element("osmChange",
            << <<"version", "0.6">>, <<"generator", "generate_osc_from_diff.py">> >>,
            Section("create", cre, utcnow)
            \o Section("modify", mdf, utcnow)
            \o Section("delete", del, utcnow))

\* minidom's toprettyxml(indent='  '): one line per start tag, end tag or
\* empty element, after the declaration line minidom writes.
RECURSIVE writexml(_, _)
RECURSIVE writexml_all(_, _)
writexml(elem, depth) ==
    IF elem.children = <<>>
    THEN << [indent |-> depth, kind |-> "empty", tag |-> elem.tag, attrs |-> elem.attrs] >>
    ELSE << [indent |-> depth, kind |-> "start", tag |-> elem.tag, attrs |-> elem.attrs] >>
         \o writexml_all(elem.children, depth + 1)
         \o << [indent |-> depth, kind |-> "end", tag |-> elem.tag, attrs |-> <<>>] >>
writexml_all(elems, depth) ==
    IF elems = <<>> THEN <<>>
    ELSE writexml(Head(elems), depth) \o writexml_all(Tail(elems), depth)

MinidomDeclaration == [indent |-> 0, kind |-> "declaration", tag |-> "xml version=\"1.0\" encoding=\"UTF-8\"", attrs |-> <<>>]
OwnDeclaration == [indent |-> 0, kind |-> "declaration", tag |-> "xml version='1.0' encoding='UTF-8'", attrs |-> <<>>]

toprettyxml(root) == <<MinidomDeclaration>> \o writexml(root, 0)

\* The lines written to output_file: the first line, when it is a
\* declaration, is replaced by the script's own, else the script's is put
\* in front.
FileLines(root) ==
    LET lines == toprettyxml(root)
    IN  IF lines[1].kind = "declaration"
        THEN [lines EXCEPT ![1] = OwnDeclaration]
        ELSE <<OwnDeclaration>> \o lines

\* ---------------------------------------------------------------- actions
\* The value datetime.utcnow() returns while the document is built, in
\* seconds since midnight.
UtcNow == {40000}

EmptyPart == [nodes |-> <<>>, ways |-> <<>>, relations |-> <<>>]

Init ==
    /\ phase = "read_original"
    /\ original_reader = PBFReader
    /\ modified_reader = PBFReader
    /\ created = EmptyPart
    /\ modified = EmptyPart
    /\ deleted = EmptyPart
    /\ osm_change = None
    /\ output_file = None
    /\ ReadIdle /\ ApplyIdle /\ TagIdle

Reading == phase \in {"read_original", "read_modified"}
Room == ReaderSize(original_reader) + ReaderSize(modified_reader) < MaxElems

\* apply_file calls the handler of the reader being filled with one entity.
Handle(node_, way_, relation_) ==
    /\ Reading
    /\ Room
    /\ IF phase = "read_original"
       THEN /\ original_reader' = IF node_ # None THEN PBFReader_node(original_reader, node_[1])
                                  ELSE IF way_ # None THEN PBFReader_way(original_reader, way_[1])
                                  ELSE PBFReader_relation(original_reader, relation_[1])
            /\ UNCHANGED modified_reader
       ELSE /\ modified_reader' = IF node_ # None THEN PBFReader_node(modified_reader, node_[1])
                                  ELSE IF way_ # None THEN PBFReader_way(modified_reader, way_[1])
                                  ELSE PBFReader_relation(modified_reader, relation_[1])
            /\ UNCHANGED original_reader
    /\ UNCHANGED <<phase, created, modified, deleted, osm_change, output_file>>
    /\ UNCHANGED <<readVars, applyVars, tagVars>>

node == \E n \in FileNodes : Handle(Some(n), None, None)
way == \E w \in FileWays : Handle(None, Some(w), None)
relation == \E r \in FileRelations : Handle(None, None, Some(r))

\* apply_file returns for the original file: main goes on to the modified
\* file.
apply_file_returns ==
    /\ phase = "read_original"
    /\ phase' = "read_modified"
    /\ UNCHANGED <<original_reader, modified_reader, created, modified, deleted,
                   osm_change, output_file>>
    /\ UNCHANGED <<readVars, applyVars, tagVars>>

\* apply_file returns for the modified file and main calls generate_osc.
generate_osc ==
    /\ phase = "read_modified"
    /\ created' = [nodes |-> created_nodes(original_reader, modified_reader),
                   ways |-> created_ways(original_reader, modified_reader),
                   relations |-> created_relations(original_reader, modified_reader)]
    /\ deleted' = [nodes |-> deleted_nodes(original_reader, modified_reader),
                   ways |-> deleted_ways(original_reader, modified_reader),
                   relations |-> deleted_relations(original_reader, modified_reader)]
    /\ \E on \in Orders(CommonKeys(original_reader.nodes, modified_reader.nodes)),
          ow \in Orders(CommonKeys(original_reader.ways, modified_reader.ways)),
          orl \in Orders(CommonKeys(original_reader.relations, modified_reader.relations)) :
        modified' = [nodes |-> modified_nodes(original_reader, modified_reader, on),
                     ways |-> modified_ways(original_reader, modified_reader, ow),
                     relations |-> modified_relations(original_reader, modified_reader, orl)]
    /\ \E utcnow \in UtcNow : osm_change' = OsmChange(created', modified', deleted', utcnow)
    /\ output_file' = FileLines(osm_change')
    /\ phase' = "done"
    /\ UNCHANGED <<original_reader, modified_reader>>
    /\ UNCHANGED <<readVars, applyVars, tagVars>>

Next == node \/ way \/ relation \/ apply_file_returns \/ generate_osc

Spec == Init /\ [][Next]_vars

\* generate_osc as a function of two snapshots: each snapshot is empty or
\* holds one entity, of any kind and content.
CompareReaders ==
    {PBFReader}
    \cup {PBFReader_node(PBFReader, n) : n \in CompareNodes}
    \cup {PBFReader_way(PBFReader, w) : w \in CompareWays}
    \cup {PBFReader_relation(PBFReader, r) : r \in CompareRelations}

InitCompare ==
    /\ phase = "read_modified"
    /\ original_reader \in CompareReaders
    /\ modified_reader \in CompareReaders
    /\ created = EmptyPart
    /\ modified = EmptyPart
    /\ deleted = EmptyPart
    /\ osm_change = None
    /\ output_file = None
    /\ ReadIdle /\ ApplyIdle /\ TagIdle

SpecCompare == InitCompare /\ [][generate_osc]_vars

\* ------------------------------------------------------------- properties
Done == phase = "done"
Kinds == {"nodes", "ways", "relations"}

InBoth(k, id) == id \in CommonKeys(original_reader[k], modified_reader[k])
OrigRecord(k, id) == DictGet(original_reader[k], id)
ModRecord(k, id) == DictGet(modified_reader[k], id)
AllIds(k) == DictKeys(original_reader[k]) \cup DictKeys(modified_reader[k])

\* C1: for each kind, the created ids are the ids of the modified snapshot
\* that the original lacks, and the deleted ids are the ids of the original
\* snapshot that the modified lacks.
C1_CreatedDeletedAreDifferences ==
    Done =>
        \A k \in Kinds :
            /\ DictKeys(created[k]) = DictKeys(modified_reader[k]) \ DictKeys(original_reader[k])
            /\ DictKeys(deleted[k]) = DictKeys(original_reader[k]) \ DictKeys(modified_reader[k])

\* A way is created and another deleted while the original snapshot holds a
\* node with the created way's id.
C1_Witness ==
    /\ Done
    /\ deleted.ways # <<>>
    /\ \E i \in DictKeys(created.ways) : i \in DictKeys(original_reader.nodes)

\* The record-level reading of "semantically unequal" for kind k.
SemanticallyUnequal(k, a, b) ==
    \/ a.tags # b.tags
    \/ k = "nodes" /\ (Abs(a.lat - b.lat) > 10 \/ Abs(a.lon - b.lon) > 10)
    \/ k = "ways" /\ a.nodes # b.nodes
    \/ k = "relations" /\ a.members # b.members

\* C2: an id is in the modified set of its kind iff it is in both snapshots
\* and its two records are semantically unequal; an id in both snapshots
\* with semantically equal records is in none of the three sets.
C2_ModifiedIffUnequal ==
    Done =>
        \A k \in Kinds : \A id \in AllIds(k) :
            /\ id \in DictKeys(modified[k])
                <=> (InBoth(k, id) /\ SemanticallyUnequal(k, OrigRecord(k, id), ModRecord(k, id)))
            /\ (InBoth(k, id) /\ ~SemanticallyUnequal(k, OrigRecord(k, id), ModRecord(k, id)))
                => id \notin DictKeys(created[k]) \cup DictKeys(modified[k]) \cup DictKeys(deleted[k])

\* A node in both snapshots whose tags changed and whose coordinates did not
\* is classified as modified.
C2_Witness ==
    /\ Done
    /\ \E id \in DictKeys(modified.nodes) :
        /\ InBoth("nodes", id)
        /\ OrigRecord("nodes", id).tags # ModRecord("nodes", id).tags
        /\ OrigRecord("nodes", id).location = ModRecord("nodes", id).location

\* C3: for each kind, the created, deleted and modified id sets are pairwise
\* disjoint.
C3_PartitionDisjoint ==
    Done =>
        \A k \in Kinds :
            /\ DictKeys(created[k]) \cap DictKeys(deleted[k]) = {}
            /\ DictKeys(created[k]) \cap DictKeys(modified[k]) = {}
            /\ DictKeys(deleted[k]) \cap DictKeys(modified[k]) = {}

\* One kind has a created id and a modified id at once.
C3_Witness ==
    /\ Done
    /\ \E k \in Kinds : created[k] # <<>> /\ modified[k] # <<>>

SameSnapshot ==
    \A k \in Kinds : DictItems(original_reader[k]) = DictItems(modified_reader[k])
AllEmpty(part) == \A k \in Kinds : part[k] = <<>>

\* C4: diffing a snapshot against itself gives empty created, deleted and
\* modified sets for every kind, and a document without sections.
C4_Idempotence ==
    (Done /\ SameSnapshot) =>
        /\ AllEmpty(created) /\ AllEmpty(deleted) /\ AllEmpty(modified)
        /\ osm_change.children = <<>>

\* A snapshot holding a node has been diffed against itself.
C4_Witness ==
    /\ Done
    /\ SameSnapshot
    /\ original_reader.nodes # <<>>

\* The created and deleted sets of the diff taken the other way round.
ReverseCreated ==
    [nodes |-> created_nodes(modified_reader, original_reader),
     ways |-> created_ways(modified_reader, original_reader),
     relations |-> created_relations(modified_reader, original_reader)]
ReverseDeleted ==
    [nodes |-> deleted_nodes(modified_reader, original_reader),
     ways |-> deleted_ways(modified_reader, original_reader),
     relations |-> deleted_relations(modified_reader, original_reader)]

\* C5: the created ids of diff(original, modified) are the deleted ids of
\* diff(modified, original), and the deleted ids of the first are the
\* created ids of the second, for each kind.
C5_Symmetry ==
    Done =>
        \A k \in Kinds :
            /\ DictKeys(created[k]) = DictKeys(ReverseDeleted[k])
            /\ DictKeys(deleted[k]) = DictKeys(ReverseCreated[k])

\* A relation is created while the original snapshot holds a way with the
\* same id, and something is deleted.
C5_Witness ==
    /\ Done
    /\ \E i \in DictKeys(created.relations) : i \in DictKeys(original_reader.ways)
    /\ ~AllEmpty(deleted)

\* Tags and kind-specific content (coordinates, node refs, members) agree.
SameContent(a, b) ==
    /\ a.tags = b.tags
    /\ a.location = b.location
    /\ a.nodes = b.nodes
    /\ a.members = b.members

ProvenanceAllDiffers(a, b) ==
    /\ a.version # b.version
    /\ a.timestamp # b.timestamp
    /\ a.uid # b.uid
    /\ a.user # b.user
    /\ a.changeset # b.changeset

\* C6: two records of an id whose tags and kind-specific content are equal
\* are not classified as modified, whatever their version, timestamp, uid,
\* user and changeset.
C6_ProvenanceExcluded ==
    Done =>
        \A k \in Kinds : \A id \in AllIds(k) :
            (InBoth(k, id) /\ SameContent(OrigRecord(k, id), ModRecord(k, id)))
                => id \notin DictKeys(modified[k])

\* An entity whose five provenance fields all changed, and nothing else, has
\* been diffed.
C6_Witness ==
    /\ Done
    /\ \E k \in Kinds : \E id \in AllIds(k) :
        /\ InBoth(k, id)
        /\ SameContent(OrigRecord(k, id), ModRecord(k, id))
        /\ ProvenanceAllDiffers(OrigRecord(k, id), ModRecord(k, id))

SeqRange(q) == {q[i] : i \in 1..Len(q)}

\* C7: a way in both snapshots whose node-ref sequences differ, also when
\* they hold the same refs in another order, is classified as modified; so
\* is a relation whose member sequences differ in any position, role
\* included.
C7_OrderSensitive ==
    Done =>
        /\ \A id \in AllIds("ways") :
            (InBoth("ways", id) /\ OrigRecord("ways", id).nodes # ModRecord("ways", id).nodes)
                => id \in DictKeys(modified.ways)
        /\ \A id \in AllIds("relations") :
            (/\ InBoth("relations", id)
             /\ OrigRecord("relations", id).members # ModRecord("relations", id).members)
                => id \in DictKeys(modified.relations)

\* A way whose refs were reordered, with the same tags, has been diffed.
C7_Witness ==
    /\ Done
    /\ \E id \in AllIds("ways") :
        /\ InBoth("ways", id)
        /\ OrigRecord("ways", id).tags = ModRecord("ways", id).tags
        /\ OrigRecord("ways", id).nodes # ModRecord("ways", id).nodes
        /\ SeqRange(OrigRecord("ways", id).nodes[1]) = SeqRange(ModRecord("ways", id).nodes[1])
        /\ Len(OrigRecord("ways", id).nodes[1]) = Len(ModRecord("ways", id).nodes[1])

\* C8: two nodes with equal tags are semantically equal (the id is not
\* classified as modified) iff both coordinate differences are at most 1e-7
\* degree, which is 10 units of 1e-8 degree.
C8_Tolerance ==
    Done =>
        \A id \in AllIds("nodes") :
            (InBoth("nodes", id) /\ OrigRecord("nodes", id).tags = ModRecord("nodes", id).tags)
                => (id \notin DictKeys(modified.nodes)
                    <=> /\ Abs(OrigRecord("nodes", id).lat - ModRecord("nodes", id).lat) <= 10
                        /\ Abs(OrigRecord("nodes", id).lon - ModRecord("nodes", id).lon) <= 10)

\* A node moved by 1e-8 degree of latitude, with the same tags, has been
\* diffed and left unmodified.
C8_Witness ==
    /\ Done
    /\ \E id \in AllIds("nodes") :
        /\ InBoth("nodes", id)
        /\ OrigRecord("nodes", id).tags = ModRecord("nodes", id).tags
        /\ Abs(OrigRecord("nodes", id).lat - ModRecord("nodes", id).lat) = 1
        /\ OrigRecord("nodes", id).lon = ModRecord("nodes", id).lon
        /\ id \notin DictKeys(modified.nodes)

HasSection(name) ==
    \E i \in 1..Len(osm_change.children) : osm_change.children[i].tag = name
SectionCount(name) ==
    Cardinality({i \in 1..Len(osm_change.children) : osm_change.children[i].tag = name})

\* C9: the document has a create (modify, delete) section iff one of the
\* three created (modified, deleted) sets is non-empty; when all nine sets
\* are empty the root has no child and the file is the declaration line
\* followed by the root alone.
C9_SectionOmission ==
    Done =>
        /\ HasSection("create") <=> (\E k \in Kinds : created[k] # <<>>)
        /\ HasSection("modify") <=> (\E k \in Kinds : modified[k] # <<>>)
        /\ HasSection("delete") <=> (\E k \in Kinds : deleted[k] # <<>>)
        /\ \A name \in {"create", "modify", "delete"} : SectionCount(name) <= 1
        /\ output_file[1].kind = "declaration"
        /\ (AllEmpty(created) /\ AllEmpty(modified) /\ AllEmpty(deleted))
            => /\ osm_change.children = <<>>
               /\ Len(output_file) = 2
               /\ output_file[2].tag = "osmChange"

\* Only ways were created and only relations deleted: the document has a
\* create and a delete section and no modify section.
C9_Witness ==
    /\ Done
    /\ created.nodes = <<>> /\ created.relations = <<>> /\ created.ways # <<>>
    /\ deleted.nodes = <<>> /\ deleted.ways = <<>> /\ deleted.relations # <<>>
    /\ HasSection("create") /\ HasSection("delete") /\ ~HasSection("modify")

\* int() of the decimal digits str() writes.
RECURSIVE ParseDigits(_)
ParseDigits(ds) ==
    IF Len(ds) = 1 THEN ds[1]
    ELSE 10 * ParseDigits(SubSeq(ds, 1, Len(ds) - 1)) + ds[Len(ds)]
ElementId(elem) == ParseDigits(elem.attrs[1][2])
KindRank(tag) == CASE tag = "node" -> 1 [] tag = "way" -> 2 [] tag = "relation" -> 3

\* C10: in every section the node elements come first, then the ways, then
\* the relations, and within a kind the ids are strictly ascending,
\* whatever the order in which the entities were read.
C10_SectionOrder ==
    Done =>
        \A s \in 1..Len(osm_change.children) :
            LET els == osm_change.children[s].children
            IN  \A i, j \in 1..Len(els) :
                    i < j =>
                        \/ KindRank(els[i].tag) < KindRank(els[j].tag)
                        \/ /\ els[i].tag = els[j].tag
                           /\ els[i].attrs[1][1] = "id"
                           /\ ElementId(els[i]) < ElementId(els[j])

\* A section holds two nodes that were read in descending id order, and an
\* element of another kind.
C10_Witness ==
    /\ Done
    /\ Len(modified_reader.nodes) >= 2
    /\ modified_reader.nodes[1][1] > modified_reader.nodes[2][1]
    /\ \E s \in 1..Len(osm_change.children) :
        LET els == osm_change.children[s].children
        IN  /\ Len(els) >= 3
            /\ els[1].tag = "node" /\ els[2].tag = "node" /\ els[3].tag # "node"

\* ------------------------------------------------- content of the sections
HasAttr(elem, name) == \E i \in 1..Len(elem.attrs) : elem.attrs[i][1] = name
AttrOf(elem, name) ==
    elem.attrs[CHOOSE i \in 1..Len(elem.attrs) : elem.attrs[i][1] = name][2]
ChildrenOf(elem, tag) == SelectSeq(elem.children, LAMBDA c : c.tag = tag)
KindOfTag(tag) ==
    CASE tag = "node" -> "nodes" [] tag = "way" -> "ways" [] tag = "relation" -> "relations"

\* The element elem shows the id, version, tags and the coordinates, node
\* references or members of the record rec of kind k.
Carries(elem, k, rec) ==
    LET tagels == ChildrenOf(elem, "tag")
        nds == ChildrenOf(elem, "nd")
        mems == ChildrenOf(elem, "member")
    IN  /\ AttrOf(elem, "id") = str(rec.id)
        /\ AttrOf(elem, "version") = str(rec.version)
        /\ Len(tagels) = Cardinality(DOMAIN rec.tags)
        /\ {<<AttrOf(tagels[i], "k"), AttrOf(tagels[i], "v")>> : i \in 1..Len(tagels)}
            = {<<key, rec.tags[key]>> : key \in DOMAIN rec.tags}
        /\ k = "nodes" =>
            /\ AttrOf(elem, "lat") = str(rec.lat)
            /\ AttrOf(elem, "lon") = str(rec.lon)
        /\ k = "ways" =>
            [i \in 1..Len(nds) |-> AttrOf(nds[i], "ref")]
                = [i \in 1..Len(rec.nodes[1]) |-> str(rec.nodes[1][i])]
        /\ k = "relations" =>
            [i \in 1..Len(mems) |->
                <<AttrOf(mems[i], "type"), AttrOf(mems[i], "ref"), AttrOf(mems[i], "role")>>]
                = [i \in 1..Len(rec.members[1]) |->
                    <<rec.members[1][i][1], str(rec.members[1][i][2]), rec.members[1][i][3]>>]

\* C11: every element of the create and modify sections carries the version,
\* tags and coordinates, node references or members of the record its id has
\* in the modified snapshot, and every element of the delete section those
\* of the record its id has in the original snapshot.
C11_SectionContentSource ==
    Done =>
        \A s \in 1..Len(osm_change.children) :
            LET section == osm_change.children[s]
            IN  \A e \in 1..Len(section.children) :
                    LET elem == section.children[e]
                        k == KindOfTag(elem.tag)
                        id == ElementId(elem)
                    IN  IF section.tag = "delete"
                        THEN /\ id \in DictKeys(original_reader[k])
                             /\ Carries(elem, k, OrigRecord(k, id))
                        ELSE /\ id \in DictKeys(modified_reader[k])
                             /\ Carries(elem, k, ModRecord(k, id))

\* The modify section holds an entity whose version differs between the
\* two snapshots and whose content differs too.
C11_Witness ==
    /\ Done
    /\ HasSection("modify")
    /\ \E k \in Kinds : \E id \in DictKeys(modified[k]) :
        /\ OrigRecord(k, id).version # ModRecord(k, id).version
        /\ OrigRecord(k, id).tags # ModRecord(k, id).tags

\* The record an element of a section was rendered from (C11).
SourceRecord(section, elem) ==
    IF section.tag = "delete"
    THEN OrigRecord(KindOfTag(elem.tag), ElementId(elem))
    ELSE ModRecord(KindOfTag(elem.tag), ElementId(elem))

\* C12: every rendered entity carries a timestamp attribute, the record's
\* own timestamp or, when the record has none, the current UTC time; the
\* uid, user and changeset attributes are there only when the record has
\* them.  create_osm_element_xml guards the attribute with
\* `if element_data.timestamp:`, so a record without timestamp is rendered
\* without the attribute and format_timestamp's utcnow() branch never runs.
C12_TimestampAlwaysRendered ==
    Done =>
        \A s \in 1..Len(osm_change.children) :
            LET section == osm_change.children[s]
            IN  \A e \in 1..Len(section.children) :
                    LET elem == section.children[e]
                        rec == SourceRecord(section, elem)
                    IN  /\ HasAttr(elem, "timestamp")
                        /\ AttrOf(elem, "timestamp") \in
                            (IF rec.timestamp # None
                             THEN {strftime(rec.timestamp[1])}
                             ELSE {strftime(t) : t \in UtcNow})
                        /\ HasAttr(elem, "uid") <=> rec.uid # None
                        /\ HasAttr(elem, "user") <=> rec.user # ""
                        /\ HasAttr(elem, "changeset") <=> rec.changeset # None

\* A record without timestamp, uid, user and changeset has been rendered.
C12_Witness ==
    /\ Done
    /\ \E s \in 1..Len(osm_change.children) :
        LET section == osm_change.children[s]
        IN  \E e \in 1..Len(section.children) :
                LET elem == section.children[e]
                    rec == SourceRecord(section, elem)
                IN  /\ rec.timestamp = None /\ rec.uid = None
                    /\ rec.user = "" /\ rec.changeset = None
                    /\ ~HasAttr(elem, "timestamp")
                    /\ ~HasAttr(elem, "uid") /\ ~HasAttr(elem, "user")
                    /\ ~HasAttr(elem, "changeset")

\* ----------------------------------------- one file read by apply_file
\* A file holds at most MaxStream entities.
MaxStream == 2

FileElements == FileNodes \cup FileWays \cup FileRelations
Streams == UNION {[1..n -> FileElements] : n \in 0..MaxStream}

InitRead ==
    /\ phase = "read_original"
    /\ original_reader = PBFReader
    /\ modified_reader = PBFReader
    /\ created = EmptyPart
    /\ modified = EmptyPart
    /\ deleted = EmptyPart
    /\ osm_change = None
    /\ output_file = None
    /\ stream \in Streams
    /\ pos = 0
    /\ ApplyIdle /\ TagIdle

\* PBFReader.apply_file: the handler of the entity's kind is called with
\* the next entity of the file.  No handler raises.
apply_file ==
    /\ phase = "read_original"
    /\ pos < Len(stream)
    /\ LET o == stream[pos + 1]
       IN  original_reader' =
               CASE o.kind = "node" -> PBFReader_node(original_reader, o)
                 [] o.kind = "way" -> PBFReader_way(original_reader, o)
                 [] o.kind = "relation" -> PBFReader_relation(original_reader, o)
    /\ pos' = pos + 1
    /\ UNCHANGED <<phase, modified_reader, created, modified, deleted,
                   osm_change, output_file, stream>>
    /\ UNCHANGED <<applyVars, tagVars>>

SpecRead == InitRead /\ [][apply_file]_vars

SameKey(a, b) == a.kind = b.kind /\ a.id = b.id
ReaderDict(reader, kind) ==
    CASE kind = "node" -> reader.nodes
      [] kind = "way" -> reader.ways
      [] kind = "relation" -> reader.relations
\* The entities read so far with the kind and id of stream[j].
Occurrences(j) == {m \in 1..pos : SameKey(stream[m], stream[j])}
LastOccurrence(j) == CHOOSE m \in Occurrences(j) : \A n \in Occurrences(j) : n <= m
FirstOccurrence(j) == CHOOSE m \in Occurrences(j) : \A n \in Occurrences(j) : m <= n

\* C13 (as the code behaves): a second record with the kind and id of an
\* earlier one does not fail; reading goes on to the end of the file, and
\* the snapshot maps every (kind, id) read so far to the record read last
\* for it, one entry per (kind, id).
C13_LastRecordWins ==
    /\ phase = "read_original"
    /\ \A j \in 1..pos :
        LET d == ReaderDict(original_reader, stream[j].kind)
        IN  /\ DictHas(d, stream[j].id)
            /\ DictGet(d, stream[j].id) = ElementData(stream[LastOccurrence(j)])
    /\ ReaderSize(original_reader) = Cardinality({FirstOccurrence(j) : j \in 1..pos})
    /\ ENABLED apply_file <=> pos < Len(stream)

\* The file holds the same (kind, id) twice with different content, both
\* records have been read and the snapshot holds the second.
C13_Witness ==
    /\ pos = 2
    /\ SameKey(stream[1], stream[2])
    /\ ElementData(stream[1]) # ElementData(stream[2])
    /\ ReaderSize(original_reader) = 1
    /\ DictGet(ReaderDict(original_reader, stream[2].kind), stream[2].id)
        = ElementData(stream[2])

\* C13 (as stated): a record whose (kind, id) was read before makes the
\* build fail, so it is never taken in, and the snapshot keeps the first
\* record of every (kind, id).
C13_DuplicateIdFails ==
    \A j \in 1..pos :
        /\ Occurrences(j) = {j}
        /\ DictGet(ReaderDict(original_reader, stream[j].kind), stream[j].id)
            = ElementData(stream[FirstOccurrence(j)])

\* ------------------------------------- snapshots of up to two entities
OrderIds == {9, 10}
OrderElements == {o \in FileNodes \cup FileWays : o.id \in OrderIds}

\* The reader after apply_file over the entities of s.
RECURSIVE ReadStream(_)
ReadStream(s) ==
    IF s = <<>> THEN PBFReader
    ELSE LET reader == ReadStream(SubSeq(s, 1, Len(s) - 1))
             o == s[Len(s)]
         IN  CASE o.kind = "node" -> PBFReader_node(reader, o)
               [] o.kind = "way" -> PBFReader_way(reader, o)
               [] o.kind = "relation" -> PBFReader_relation(reader, o)

OrderReaders ==
    {ReadStream(<<>>)}
    \cup {ReadStream(<<a>>) : a \in OrderElements}
    \cup {ReadStream(<<a, b>>) : a \in OrderElements, b \in OrderElements}

InitOrder ==
    /\ phase = "read_modified"
    /\ original_reader \in OrderReaders
    /\ modified_reader \in OrderReaders
    /\ created = EmptyPart
    /\ modified = EmptyPart
    /\ deleted = EmptyPart
    /\ osm_change = None
    /\ output_file = None
    /\ ReadIdle /\ ApplyIdle /\ TagIdle

SpecOrder == InitOrder /\ [][generate_osc]_vars

\* The same mapping with its items inserted in any other order.
DictOrders(d) ==
    {[i \in 1..Len(d) |-> <<o[i], DictGet(d, o[i])>>] : o \in Orders(DictKeys(d))}
Reorderings(reader) ==
    {[nodes |-> dn, ways |-> dw, relations |-> dr] :
        dn \in DictOrders(reader.nodes),
        dw \in DictOrders(reader.ways),
        dr \in DictOrders(reader.relations)}

\* The file a run of generate_osc writes for the readers orig and mod when
\* the three sets of common ids are iterated in the orders on, ow, orl and
\* the clock shows utcnow.
RunOutput(orig, mod, on, ow, orl, utcnow) ==
    FileLines(OsmChange(
        [nodes |-> created_nodes(orig, mod),
         ways |-> created_ways(orig, mod),
         relations |-> created_relations(orig, mod)],
        [nodes |-> modified_nodes(orig, mod, on),
         ways |-> modified_ways(orig, mod, ow),
         relations |-> modified_relations(orig, mod, orl)],
        [nodes |-> deleted_nodes(orig, mod),
         ways |-> deleted_ways(orig, mod),
         relations |-> deleted_relations(orig, mod)],
        utcnow))

\* The times another run may start at.
OtherClocks == UtcNow \cup {t + 1 : t \in UtcNow}

\* C14: the file written by a run equals the file any other run writes for
\* the same two mappings, whatever the insertion order of their items, the
\* iteration order of the sets of common ids and the time of the run.
C14_Deterministic ==
    Done =>
        \A orig \in Reorderings(original_reader) :
        \A mod \in Reorderings(modified_reader) :
        \A on \in Orders(CommonKeys(orig.nodes, mod.nodes)) :
        \A ow \in Orders(CommonKeys(orig.ways, mod.ways)) :
        \A orl \in Orders(CommonKeys(orig.relations, mod.relations)) :
        \A utcnow \in OtherClocks :
            RunOutput(orig, mod, on, ow, orl, utcnow) = output_file

\* Both snapshots hold the same two nodes, inserted in opposite orders,
\* both nodes are modified and one of them has no timestamp: insertion
\* order, iteration order and the clock could all show in the file.
C14_Witness ==
    /\ Done
    /\ Len(original_reader.nodes) = 2 /\ Len(modified_reader.nodes) = 2
    /\ original_reader.nodes[1][1] = modified_reader.nodes[2][1]
    /\ original_reader.nodes[2][1] = modified_reader.nodes[1][1]
    /\ Len(modified.nodes) = 2
    /\ modified.nodes[1][1] > modified.nodes[2][1]
    /\ \E i \in 1..2 : modified.nodes[i][2].timestamp = None

\* --------------------------------------------- generate_osc and the disk
\* The document an earlier run left at output_file: one without sections.
PreviousFile == FileLines(OsmChange(EmptyPart, EmptyPart, EmptyPart, 0))

WriteReaders == {ReadStream(<<>>)} \cup {ReadStream(<<a>>) : a \in OrderElements}

\* output_file is the content of the destination, line by line; <<>> is
\* both the missing and the empty file.
InitWrite ==
    /\ phase = "read_modified"
    /\ original_reader \in WriteReaders
    /\ modified_reader \in WriteReaders
    /\ created = EmptyPart
    /\ modified = EmptyPart
    /\ deleted = EmptyPart
    /\ osm_change = None
    /\ output_file \in {None, PreviousFile}
    /\ ReadIdle /\ ApplyIdle /\ TagIdle

\* generate_osc up to `with open(output_file, 'wb') as f:`.
build_osm_change ==
    /\ phase = "read_modified"
    /\ created' = [nodes |-> created_nodes(original_reader, modified_reader),
                   ways |-> created_ways(original_reader, modified_reader),
                   relations |-> created_relations(original_reader, modified_reader)]
    /\ deleted' = [nodes |-> deleted_nodes(original_reader, modified_reader),
                   ways |-> deleted_ways(original_reader, modified_reader),
                   relations |-> deleted_relations(original_reader, modified_reader)]
    /\ \E on \in Orders(CommonKeys(original_reader.nodes, modified_reader.nodes)) :
       \E ow \in Orders(CommonKeys(original_reader.ways, modified_reader.ways)) :
       \E orl \in Orders(CommonKeys(original_reader.relations, modified_reader.relations)) :
        modified' = [nodes |-> modified_nodes(original_reader, modified_reader, on),
                     ways |-> modified_ways(original_reader, modified_reader, ow),
                     relations |-> modified_relations(original_reader, modified_reader, orl)]
    /\ \E utcnow \in UtcNow : osm_change' = OsmChange(created', modified', deleted', utcnow)
    /\ UNCHANGED <<original_reader, modified_reader>>
    /\ UNCHANGED <<readVars, applyVars, tagVars>>

\* open(output_file, 'wb') raises: the destination is not touched, the
\* exception leaves generate_osc and main exits with status 1.
generate_osc_open_fails ==
    /\ build_osm_change
    /\ output_file' = output_file
    /\ phase' = "failed"

\* open(output_file, 'wb') has created or truncated the destination and
\* f.write (or the flush on leaving the `with` block) raises after part of
\* the data has reached the file.
generate_osc_write_fails ==
    /\ build_osm_change
    /\ \E written \in 0..(Len(FileLines(osm_change')) - 1) :
        output_file' = SubSeq(FileLines(osm_change'), 1, written)
    /\ phase' = "failed"

NextWrite == generate_osc \/ generate_osc_open_fails \/ generate_osc_write_fails

SpecWrite == InitWrite /\ [][NextWrite]_vars

\* C15: whichever step of the writing fails, the open or the write, the
\* destination afterwards holds what it held before or the complete new
\* document, never an empty or truncated one.
C15_NoPartialOutput ==
    [][output_file' = output_file \/ output_file' = FileLines(osm_change')]_vars

\* The write failed and the destination holds a proper, non-empty prefix
\* of the new document, which is not the document of the earlier run.
C15_Witness ==
    /\ phase = "failed"
    /\ output_file # PreviousFile
    /\ Len(output_file) >= 1
    /\ Len(output_file) < Len(FileLines(osm_change))
    /\ output_file = SubSeq(FileLines(osm_change), 1, Len(output_file))

\* ======================================================= apply_osc_files.py
\* A PBF file name is a pair: the two arguments of the script and the names
\* NamedTemporaryFile hands out, which are new each time.
input_pbf == <<"input.pbf", 0>>
output_pbf == <<"output.pbf", 0>>
NamedTemporaryFile(n) == <<"tmp.pbf", n>>

\* The entries a change directory can hold.  An entry is its place in the
\* ascending order of the path strings; PathExt gives its extension.
PathExt == <<"osm", "osc", "txt", "opl", "osc">>
Paths == DOMAIN PathExt
\* A directory that does not exist is None, one that does is Some(entries).
Directories == {None} \cup {Some(entries) : entries \in SUBSET Paths}

\* sorted(): ascending insertion sort of a set of paths.
RECURSIVE sorted(_)
sorted(S) ==
    IF S = {} THEN <<>>
    ELSE LET least == CHOOSE p \in S : \A q \in S : p <= q
         IN  <<least>> \o sorted(S \ {least})

\* sorted(change_path.glob("*." + ext))
glob(entries, ext) == sorted({p \in entries : PathExt[p] = ext})

\* all_files.append((ext, str(f))) for f in the files of one extension
Tagged(ext, paths) == [i \in 1..Len(paths) |-> <<ext, paths[i]>>]

\* list.sort(key=lambda x: x[1]): a stable insertion sort on the path.
RECURSIVE InsertByPath(_, _)
InsertByPath(x, s) ==
    IF s = <<>> THEN <<x>>
    ELSE IF x[2] < Head(s)[2] THEN <<x>> \o s
    ELSE <<Head(s)>> \o InsertByPath(x, Tail(s))
RECURSIVE sort_by_path(_)
sort_by_path(s) ==
    IF s = <<>> THEN <<>>
    ELSE InsertByPath(s[Len(s)], sort_by_path(SubSeq(s, 1, Len(s) - 1)))

\* Variant: the combined list is returned as built, type by type.
find_change_files_by_type(dir) ==
    IF dir = None THEN <<>>
    ELSE Tagged("osc", glob(dir[1], "osc"))
         \o Tagged("osm", glob(dir[1], "osm"))
         \o Tagged("opl", glob(dir[1], "opl"))

find_change_files(dir) ==
    IF dir = None THEN <<>>
    ELSE sort_by_path(Tagged("osc", glob(dir[1], "osc"))
                      \o Tagged("osm", glob(dir[1], "osm"))
                      \o Tagged("opl", glob(dir[1], "opl")))

\* What running osmium can come to: it exits with status 0, it exits with
\* another status, subprocess.run raises TimeoutExpired after an hour, or
\* subprocess.run raises something else.
Outcomes == {"ok", "nonzero", "timeout", "exception"}

\* The subcommand chosen for a file type; None for an unknown type.
osmium_command(file_type) ==
    IF file_type = "osc" THEN Some("apply-changes")
    ELSE IF file_type \in {"osm", "opl"} THEN Some("merge")
    ELSE None

\* Variant: the exit status is not looked at.
apply_change_file_with_osmium_any_status(file_type, outcome) ==
    IF osmium_command(file_type) = None THEN "False"
    ELSE IF outcome \in {"timeout", "exception"} THEN "raise"
    ELSE "True"

\* apply_change_file_with_osmium: "True", "False", or "raise" when
\* subprocess.run raises.
apply_change_file_with_osmium(file_type, outcome) ==
    IF osmium_command(file_type) = None THEN "False"
    ELSE IF outcome \in {"timeout", "exception"} THEN "raise"
    ELSE IF outcome = "nonzero" THEN "False"
    ELSE "True"

\* Variant: the `finally` block removes nothing.
finally_keeps_files(existing, temps) == existing

\* The `finally` block: every temporary file that still exists is removed.
finally_unlink(existing, temps) ==
    existing \ {temps[i] : i \in {j \in 1..Len(temps) : temps[j] # output_pbf}}

\* A list handed to apply_change_files_with_osmium holds at most
\* MaxChangeFiles entries.
MaxChangeFiles == 3

\* shutil.copy2(input_pbf, output_pbf)
copy2 == [tool |-> "copy2", input |-> input_pbf, change |-> 0,
          output |-> output_pbf, outcome |-> "ok"]

\* `return value` out of the try block: the `finally` block runs first.
Return(value, existing, temps) ==
    /\ result' = Some(value)
    /\ apply_pc' = "returned"
    /\ files' = finally_unlink(existing, temps)

\* apply_change_files up to the call of apply_change_files_with_osmium.
apply_change_files ==
    /\ apply_pc = "start"
    /\ IF input_pbf \notin files
       THEN /\ result' = Some(FALSE)
            /\ apply_pc' = "returned"
            /\ UNCHANGED <<change_files, files, commands>>
       ELSE IF find_change_files(change_dir) = <<>>
       THEN /\ files' = files \cup {output_pbf}
            /\ commands' = Append(commands, copy2)
            /\ result' = Some(TRUE)
            /\ apply_pc' = "returned"
            /\ UNCHANGED change_files
       ELSE \E check_osmium_tool \in BOOLEAN :
            IF ~check_osmium_tool
            THEN /\ result' = Some(FALSE)
                 /\ apply_pc' = "returned"
                 /\ UNCHANGED <<change_files, files, commands>>
            ELSE /\ change_files' = find_change_files(change_dir)
                 /\ apply_pc' = "called"
                 /\ UNCHANGED <<files, commands, result>>
    /\ UNCHANGED <<change_dir, step, current_file, temp_files>>
    /\ UNCHANGED <<diffVars, readVars, tagVars>>

\* apply_change_files_with_osmium up to the `try:`.
apply_change_files_with_osmium ==
    /\ apply_pc = "called"
    /\ IF change_files = <<>>
       THEN /\ files' = files \cup {output_pbf}
            /\ commands' = Append(commands, copy2)
            /\ result' = Some(TRUE)
            /\ apply_pc' = "returned"
            /\ UNCHANGED <<current_file, temp_files, step>>
       ELSE /\ current_file' = input_pbf
            /\ temp_files' = <<>>
            /\ step' = 0
            /\ apply_pc' = "loop"
            /\ UNCHANGED <<files, commands, result>>
    /\ UNCHANGED <<change_dir, change_files>>
    /\ UNCHANGED <<diffVars, readVars, tagVars>>

\* One pass through the loop body for change_files[step], and what follows
\* it when the function returns: the except clauses and the finally block.
\* tmp_ok: NamedTemporaryFile succeeds; outcome: how osmium ends; left: a
\* failed osmium leaves an output file behind.
apply_step ==
    /\ apply_pc = "loop"
    /\ \E tmp_ok \in BOOLEAN : \E outcome \in Outcomes : \E left \in BOOLEAN :
        LET file_type == change_files[step + 1][1]
            change_file == change_files[step + 1][2]
            last == (step = Len(change_files) - 1)
            next_file == IF last THEN output_pbf
                         ELSE NamedTemporaryFile(Len(temp_files) + 1)
            temps == IF last THEN temp_files ELSE Append(temp_files, next_file)
            created_temp == IF last THEN files ELSE files \cup {next_file}
            ran == osmium_command(file_type) # None
            returned == apply_change_file_with_osmium(file_type, outcome)
            after_run == IF ran /\ (outcome = "ok" \/ left)
                         THEN created_temp \cup {next_file}
                         ELSE created_temp
            after_unlink == IF current_file # input_pbf
                            THEN after_run \ {current_file}
                            ELSE after_run
        IN  IF ~last /\ ~tmp_ok
            THEN /\ Return(FALSE, files, temp_files)
                 /\ UNCHANGED <<temp_files, commands, current_file, step>>
            ELSE /\ temp_files' = temps
                 /\ commands' =
                        IF ran
                        THEN Append(commands,
                                    [tool |-> osmium_command(file_type)[1],
                                     input |-> current_file,
                                     change |-> change_file,
                                     output |-> next_file,
                                     outcome |-> outcome])
                        ELSE commands
                 /\ IF returned # "True"
                    THEN /\ Return(FALSE, after_run, temps)
                         /\ UNCHANGED <<current_file, step>>
                    ELSE /\ current_file' = next_file
                         /\ step' = step + 1
                         /\ IF last
                            THEN Return(TRUE, after_unlink, temps)
                            ELSE /\ files' = after_unlink
                                 /\ UNCHANGED <<result, apply_pc>>
    /\ UNCHANGED <<change_dir, change_files>>
    /\ UNCHANGED <<diffVars, readVars, tagVars>>

\* The script: apply_change_files(input_pbf, output_pbf, change_dir).
InitApply ==
    /\ DiffIdle /\ ReadIdle /\ TagIdle
    /\ apply_pc = "start"
    /\ change_dir \in Directories
    /\ change_files = <<>>
    /\ step = 0
    /\ current_file = None
    /\ temp_files = <<>>
    /\ files \in {{}, {input_pbf}, {input_pbf, output_pbf}}
    /\ commands = <<>>
    /\ result = None

NextApply == apply_change_files \/ apply_change_files_with_osmium \/ apply_step

SpecApply == InitApply /\ [][NextApply]_vars

\* apply_change_files_with_osmium called with any list of (type, path)
\* pairs, of known and unknown types.
DirectEntries == {<<"osc", 1>>, <<"opl", 2>>, <<"xml", 3>>}
DirectLists == UNION {[1..n -> DirectEntries] : n \in 0..MaxChangeFiles}

InitDirect ==
    /\ DiffIdle /\ ReadIdle /\ TagIdle
    /\ apply_pc = "called"
    /\ change_dir = None
    /\ change_files \in DirectLists
    /\ step = 0
    /\ current_file = None
    /\ temp_files = <<>>
    /\ files = {input_pbf}
    /\ commands = <<>>
    /\ result = None

NextDirect == apply_change_files_with_osmium \/ apply_step

SpecApplyDirect == InitDirect /\ [][NextDirect]_vars

\* --------------------------------------------- properties of the chain
Returned == apply_pc = "returned"
\* The entries of the change directory with one of the three extensions.
ChangeEntries ==
    IF change_dir = None THEN {}
    ELSE {p \in change_dir[1] : PathExt[p] \in {"osc", "osm", "opl"}}

\* C16: apply_change_files applies every .osc, .osm and .opl file of the
\* directory exactly once, one after the other in ascending order of file
\* path whatever the types, as a chain: the first step reads input_pbf,
\* every later step reads what the step before it wrote, and the last step
\* writes output_pbf; .osc files go through `osmium apply-changes`, .osm
\* and .opl files through `osmium merge`.
C16_SequentialChain ==
    /\ change_files # <<>> =>
        /\ Len(change_files) = Cardinality(ChangeEntries)
        /\ {change_files[j][2] : j \in 1..Len(change_files)} = ChangeEntries
        /\ \A j \in 1..Len(change_files) :
            /\ change_files[j][1] = PathExt[change_files[j][2]]
            /\ \A k \in 1..Len(change_files) :
                j < k => change_files[j][2] < change_files[k][2]
    /\ \A j \in 1..Len(commands) :
        commands[j].tool # "copy2" =>
            /\ commands[j].change = change_files[j][2]
            /\ commands[j].tool =
                (IF PathExt[commands[j].change] = "osc" THEN "apply-changes" ELSE "merge")
            /\ commands[j].input =
                (IF j = 1 THEN input_pbf ELSE commands[j - 1].output)
            /\ commands[j].output = output_pbf <=> j = Len(change_files)
    /\ (result = Some(TRUE) /\ ChangeEntries # {}) =>
        /\ Len(commands) = Cardinality(ChangeEntries)
        /\ commands[Len(commands)].output = output_pbf

\* The directory holds files of all three types and one that is no change
\* file; the run succeeded, and the first file in path order is not of the
\* type globbed first.
C16_Witness ==
    /\ Returned
    /\ result = Some(TRUE)
    /\ change_dir # None
    /\ \E p \in change_dir[1] : PathExt[p] = "txt"
    /\ Len(commands) >= 3
    /\ commands[1].tool = "merge"
    /\ commands[2].tool = "apply-changes"
    /\ \E j \in 1..Len(commands) : PathExt[commands[j].change] = "opl"

TempFiles == {temp_files[j] : j \in 1..Len(temp_files)}

KnownType(j) == change_files[j][1] \in {"osc", "osm", "opl"}

\* C18: when the step for a change file fails (osmium exits non-zero, the
\* type is unknown, the command times out or an exception is raised) the
\* function returns False, no later change file is applied, and
\* output_pbf is written only if the failing step was the last; True is
\* returned only if every step succeeded.
C18_FailureStops ==
    /\ \A j \in 1..Len(commands) :
        /\ commands[j].outcome # "ok" =>
            /\ Returned
            /\ result = Some(FALSE)
            /\ j = Len(commands)
        /\ commands[j].tool # "copy2" =>
            (commands[j].output = output_pbf <=> j = Len(change_files))
    /\ \A j \in 1..Len(change_files) :
        ~KnownType(j) =>
            /\ Len(commands) < j
            /\ Returned => result = Some(FALSE)
    /\ (output_pbf \in files /\ change_files # <<>>) =>
        /\ Len(commands) = Len(change_files)
        /\ commands[Len(commands)].output = output_pbf
    /\ (result = Some(TRUE) /\ change_files # <<>>) =>
        /\ Len(commands) = Len(change_files)
        /\ \A j \in 1..Len(commands) : commands[j].outcome = "ok"
        /\ \A j \in 1..Len(change_files) : KnownType(j)
    /\ Returned => result \in {Some(TRUE), Some(FALSE)}

\* The second of three steps timed out: False is returned, the third file
\* was not applied and output_pbf was not written.
C18_Witness ==
    /\ Returned
    /\ result = Some(FALSE)
    /\ Len(change_files) = 3
    /\ Len(commands) = 2
    /\ commands[1].outcome = "ok"
    /\ commands[2].outcome = "timeout"
    /\ output_pbf \notin files

\* ================================================ remove_state_road_tags.py
\* A tag value is the sequence of the pieces between its semicolons, "" is
\* the empty sequence.  A piece is <<pad, text>>: text is the piece without
\* its surrounding whitespace, pad is 1 when there is such whitespace.
\* A value has at most MaxPieces pieces.
MaxPieces == 3

TARGET_NETWORKS == {"AU:QLD:S", "AU:QLD:MR", "AU:QLD:NR"}

NetworkPieces == {<<1, "">>, <<0, "AU:QLD:S">>, <<1, "AU:QLD:NR">>, <<0, "US:I">>}
RefPieces == {<<0, "">>, <<0, "1">>, <<1, "2">>, <<0, "3">>}
NetworkValues == UNION {[1..n -> NetworkPieces] : n \in 0..MaxPieces}
\* The one empty piece alone is the empty string again.
RefValues == UNION {[1..n -> RefPieces] : n \in 0..MaxPieces} \ {<< <<0, "">> >>}

\* item.strip()
strip(piece) == piece[2]

\* parse_semicolon_list: the stripped pieces that are not empty.
parse_semicolon_list(value) ==
    IF value = <<>> THEN <<>>
    ELSE LET kept == SelectSeq(value, LAMBDA piece : strip(piece) # "")
         IN  [i \in 1..Len(kept) |-> strip(kept[i])]

\* ';'.join(items)
join_semicolon_list(items) == [i \in 1..Len(items) |-> <<0, items[i]>>]

\* list.pop(i), positions counted from 1
Pop(list, i) == SubSeq(list, 1, i - 1) \o SubSeq(list, i + 1, Len(list))

reversed(s) == [i \in 1..Len(s) |-> s[Len(s) + 1 - i]]

\* [i for i, net in enumerate(network_list) if net in TARGET_NETWORKS],
\* ascending.
RECURSIVE IndicesFrom(_, _)
IndicesFrom(network_list, i) ==
    IF i > Len(network_list) THEN <<>>
    ELSE (IF network_list[i] \in TARGET_NETWORKS THEN <<i>> ELSE <<>>)
         \o IndicesFrom(network_list, i + 1)
indices_to_remove(network_list) == IndicesFrom(network_list, 1)

\* for i in order: network_list.pop(i)
RECURSIVE PopEach(_, _)
PopEach(list, order) ==
    IF order = <<>> THEN list
    ELSE PopEach(Pop(list, Head(order)), Tail(order))

\* for i in order: if i < len(ref_list): ref_list.pop(i)
RECURSIVE PopEachInRange(_, _)
PopEachInRange(list, order) ==
    IF order = <<>> THEN list
    ELSE PopEachInRange(IF Head(order) <= Len(list) THEN Pop(list, Head(order)) ELSE list,
                        Tail(order))

\* Variant: the positions are visited in ascending order.
remove_ref_entries_ascending(ref_list, indices) == PopEachInRange(ref_list, indices)

\* The second loop: `for i in reversed(indices_to_remove)`.
remove_ref_entries(ref_list, indices) == PopEachInRange(ref_list, reversed(indices))

\* The function's return value <<new_network_value, new_ref_value,
\* modified>>; a value that is a string is Some(string).
remove_target_network_from_lists(network, ref) ==
    LET network_list == IF network # <<>> THEN parse_semicolon_list(network) ELSE <<>>
        ref_list == IF ref # <<>> THEN parse_semicolon_list(ref) ELSE <<>>
        indices == indices_to_remove(network_list)
        networks_left == PopEach(network_list, reversed(indices))
        refs_left == remove_ref_entries(ref_list, indices)
    IN  IF network_list = <<>> THEN <<Some(network), Some(ref), FALSE>>
        ELSE IF indices = <<>> THEN <<Some(network), Some(ref), FALSE>>
        ELSE << IF networks_left # <<>> THEN Some(join_semicolon_list(networks_left)) ELSE None,
                IF refs_left # <<>> THEN Some(join_semicolon_list(refs_left)) ELSE None,
                TRUE >>

InitTags ==
    /\ DiffIdle /\ ReadIdle /\ ApplyIdle
    /\ network_value \in NetworkValues
    /\ ref_value \in RefValues
    /\ removal = None

\* way(): the call of remove_target_network_from_lists.
remove_target_network ==
    /\ removal = None
    /\ removal' = remove_target_network_from_lists(network_value, ref_value)
    /\ UNCHANGED <<network_value, ref_value>>
    /\ UNCHANGED <<diffVars, readVars, applyVars>>

SpecTags == InitTags /\ [][remove_target_network]_vars

\* The entries of list at the positions outside T, in their order.
RECURSIVE KeepFrom(_, _, _)
KeepFrom(list, T, i) ==
    IF i > Len(list) THEN <<>>
    ELSE (IF i \in T THEN <<>> ELSE <<list[i]>>) \o KeepFrom(list, T, i + 1)
AsValue(list) == IF list = <<>> THEN None ELSE Some(join_semicolon_list(list))

\* C19: remove_target_network_from_lists removes from the network list
\* every entry that is a target network and from the ref list the entries
\* at the same positions (positions beyond the end of the ref list count
\* for nothing); all other entries stay, in their order; a list left empty
\* comes back as None; when the network list holds no target network both
\* values come back as they were, with modified = False.
C19_RemoveTargetNetworks ==
    removal # None =>
        LET network_list == parse_semicolon_list(network_value)
            ref_list == parse_semicolon_list(ref_value)
            T == {i \in 1..Len(network_list) : network_list[i] \in TARGET_NETWORKS}
        IN  IF T = {}
            THEN removal = <<Some(network_value), Some(ref_value), FALSE>>
            ELSE /\ removal[3] = TRUE
                 /\ removal[1] = AsValue(KeepFrom(network_list, T, 1))
                 /\ removal[2] = AsValue(KeepFrom(ref_list, T, 1))
                 /\ removal[1] # None =>
                        \A i \in 1..Len(removal[1][1]) :
                            strip(removal[1][1][i]) \notin TARGET_NETWORKS

\* Two target networks were removed, one at a position the ref list has
\* and one beyond its end; a network and a ref remain.
C19_Witness ==
    /\ removal # None
    /\ removal[3] = TRUE
    /\ removal[1] # None
    /\ removal[2] # None
    /\ LET network_list == parse_semicolon_list(network_value)
           ref_list == parse_semicolon_list(ref_value)
           T == {i \in 1..Len(network_list) : network_list[i] \in TARGET_NETWORKS}
       IN  /\ \E i \in T : i > Len(ref_list)
           /\ \E i \in T : i <= Len(ref_list)
           /\ Len(ref_list) >= 2

=============================================================================
